---- MODULE Spec2Model ----
(***************************************************************************)
(* A model of SentryClient (src/src/sentry_client.py): the persistent      *)
(* summary cache, the retrying transport, the summary rate limiter, the    *)
(* translation step, get_issue_summary and the enrichment loop of          *)
(* create_issues_dataframe.                                                *)
(*                                                                         *)
(* Time is a clock in whole seconds (now).  A text is a sequence of        *)
(* tokens; the token "*" is the markdown emphasis character.  A call is    *)
(* a frame with a program counter; the frames of get_issue_summary,        *)
(* _make_request and _translate_with_ai are kept per thread.               *)
(***************************************************************************)
EXTENDS Integers, Sequences, FiniteSets, TLC

VARIABLES
    now,                      \* the wall clock: time.time() / datetime.now()
    file,                     \* the cache file CACHE_FILE on disk
    _summary_cache,           \* self._summary_cache
    summary_requests_count,   \* self.summary_requests_count
    last_summary_request,     \* self.last_summary_request
    _translation_count,       \* self._translation_count
    _last_translation,        \* self._last_translation
    gis,                      \* per thread: the frame of get_issue_summary
    mr,                       \* per thread: the frame of _make_request
    tw,                       \* per thread: the frame of _translate_with_ai
    dfr,                      \* the frame of create_issues_dataframe
    boot,                     \* the construction of this process: when it loaded the cache
    sent,                     \* observer: requests sent per endpoint in the current burst
    weather,                  \* the kind of fault the environment shows in this run
    ticks,                    \* clock jumps taken so far
    restarts,                 \* process restarts so far
    calls,                    \* calls made on the client so far
    _priority_cache,          \* self._priority_cache
    run,                      \* the frame of test_sentry_connection and of the calls it makes
    bat                       \* the frame of _process_summary_batch

vars == <<now, file, _summary_cache, summary_requests_count, last_summary_request,
          _translation_count, _last_translation, gis, mr, tw, dfr, boot, sent,
          weather, ticks, restarts, calls, _priority_cache, run, bat>>

\* the state of the report run and of the batch processor
report == <<_priority_cache, run, bat>>

client == <<_summary_cache, summary_requests_count, last_summary_request,
            _translation_count, _last_translation>>

----------------------------------------------------------------------------
(* Program constants *)

CACHE_EXPIRY == 3600
MAX_RETRIES == 3
summary_rate_limit == 10
summary_rate_window == 60
_translation_rate_limit == 50
translation_window == 60
translation_429_sleep == 10
batch_size == 5
batch_pause == 2

(* Bounds of the model *)

Max429 == 2
MaxTicks == 1
MaxCalls == 1
MaxRestarts == 1
MaxLookups == 3

Workers == <<"worker 1", "worker 2">>
Threads == {"main"} \cup {Workers[i] : i \in 1..Len(Workers)}
Ids == {1, 2}

StartTime == 2 * CACHE_EXPIRY
TickSteps == {1, summary_rate_window}

----------------------------------------------------------------------------
(* Texts *)

NOT_AVAILABLE == <<"Nao", "disponivel">>
EMPTY == <<>>
EN == <<"error", "in", "queue">>
PT == <<"erro", "na", "fila">>
EN_MARKED == <<"*", "error", "in", "queue", "*">>
ONLY_MARKS == <<"*", "*">>
SENTINEL_MARKED == <<"*", "Nao", "disponivel", "*">>

portuguese_words ==
    {"erro", "falha", "durante", "com", "foi", "esta", "nao", "na", "da", "do", "em", "para"}

lower(w) == CASE w = "Nao" -> "nao"
              [] w = "Erro" -> "erro"
              [] OTHER -> w

_is_portuguese(text) ==
    IF text = EMPTY THEN FALSE
    ELSE LET words == {lower(text[i]) : i \in 1..Len(text)}
         IN  Cardinality(words \cap portuguese_words) >= 2

\* str.replace('*', '')
remove_stars(text) == SelectSeq(text, LAMBDA w : w # "*")

\* dict.get(key, default)
Get(d, k, default) == IF k \in DOMAIN d THEN d[k] ELSE default

\* summary.get(key, '').replace('*', '') or self.NOT_AVAILABLE
summary_field(summary, key) ==
    LET v == remove_stars(Get(summary, key, EMPTY))
    IN  IF v = EMPTY THEN NOT_AVAILABLE ELSE v

\* the guard before each translation in get_issue_summary
should_translate_always(text) == TRUE

should_translate(text) == text # NOT_AVAILABLE

\* the guard before each forced translation in create_issues_dataframe
should_force_translation(text) == text # NOT_AVAILABLE /\ ~_is_portuguese(text)

----------------------------------------------------------------------------
(* The environment: what the upstream services may answer *)

\* the summary the upstream holds for an issue: one has a field of emphasis marks
\* only, the other a field that reads as the sentinel once its marks are removed
summary_of(id) ==
    IF id = 1 THEN [whatsWrong |-> EN_MARKED, possibleCause |-> ONLY_MARKS]
    ELSE [whatsWrong |-> SENTINEL_MARKED, possibleCause |-> PT]

\* a JSON object that has neither "whatsWrong" nor "possibleCause"
EmptySummary == [headline |-> EN]

\* a body that is not the JSON object expected: response.json() or .replace raises
InvalidBody == [invalid |-> TRUE]

NoBody == [none |-> TRUE]
NoResponse == [status_code |-> 0, body |-> NoBody]
NoError == [kind |-> "none", status_code |-> 0, attempt |-> 0 - 1]

\* the endpoint /organizations/{org}/issues/; the endpoint of the summary of issue
\* id is id
ISSUES == 0

\* a value of the JSON field "count": a number, or a string of digits
Num(n) == [int |-> n]
Str(digits) == [str |-> digits]

\* the issues the upstream holds: the API gives "count" as a string of digits and
\* "userCount" as a number; the same two issues with "count" as a number
IssueA == [id |-> 1, title |-> "A", count |-> Str(<<9>>), userCount |-> 1, priority |-> "high"]
IssueB == [id |-> 2, title |-> "B", count |-> Str(<<1, 0>>), userCount |-> 3, priority |-> "low"]
IssueAn == [IssueA EXCEPT !.count = Num(9)]
IssueBn == [IssueB EXCEPT !.count = Num(10)]

\* what the upstream may return for a query of issues
UpstreamLists == { <<>>, <<IssueA, IssueB>>, <<IssueAn, IssueBn>> }

\* what one HTTP attempt against an endpoint may answer
Responses(id) ==
    IF id = ISSUES
    THEN { [status_code |-> 200, body |-> [issues |-> l]] : l \in UpstreamLists }
         \cup { [status_code |-> 200, body |-> InvalidBody],
                [status_code |-> 429, body |-> NoBody] }
    ELSE { [status_code |-> 200, body |-> summary_of(id)],
           [status_code |-> 200, body |-> EmptySummary],
           [status_code |-> 200, body |-> InvalidBody] }
         \cup { [status_code |-> s, body |-> NoBody] : s \in {204, 429} }

\* transport failures hit every endpoint, or the endpoint of the issues only
transport_fails(endpoint) ==
    weather = "transport" \/ (weather = "listing" /\ endpoint = ISSUES)

\* in the weather "listing" an outage of the endpoint of the issues outlasts the
\* retries of the call it hits, and the other endpoints answer 200
may_answer(response, retry_count) ==
    weather = "listing" => (response.status_code = 200 /\ retry_count = 0)

\* the kinds of fault of the environment; a run may show faults of one kind
Weathers == {"transport", "body", "translation", "disk"}

\* response.raise_for_status()
raises_for_status(response) ==
    response.status_code >= 400 /\ response.status_code < 600

TranslationOutputs == {PT}

----------------------------------------------------------------------------
(* The persistent summary cache *)

NoEntries == [k \in {} |-> 0]
Entry(w, p, t) == [whats_wrong |-> w, possivel_causa |-> p, timestamp |-> t]

\* the comprehension's filter of _load_summary_cache
load_keeps_at_expiry(v, t) == t - Get(v, "timestamp", 0) <= CACHE_EXPIRY

load_keeps(v, t) == t - Get(v, "timestamp", 0) < CACHE_EXPIRY

_load_summary_cache(f, t) ==
    IF f.state = "missing" THEN NoEntries
    ELSE IF f.state = "corrupt" THEN NoEntries
    ELSE LET keep == {k \in DOMAIN f.data : load_keeps(f.data[k], t)}
         IN  [k \in keep |-> f.data[k]]

\* the cache test at the head of get_issue_summary
cache_entry_valid_inverted(cache_entry, t) == t - cache_entry.timestamp > CACHE_EXPIRY

cache_entry_valid_at_expiry(cache_entry, t) == t - cache_entry.timestamp <= CACHE_EXPIRY

cache_entry_valid(cache_entry, t) == t - cache_entry.timestamp < CACHE_EXPIRY

\* _save_summary_cache: the file it leaves; a failure is caught and printed
_save_summary_cache_skipped(f, cache, outcome) == f

_save_summary_cache(f, cache, outcome) ==
    CASE outcome = "ok" -> [state |-> "ok", data |-> cache]
      [] outcome = "open_failed" -> f
      [] outcome = "write_failed" -> [state |-> "corrupt", data |-> NoEntries]

InitialEntries ==
    { Entry(PT, EN, StartTime - CACHE_EXPIRY + 1),
      Entry(NOT_AVAILABLE, PT, StartTime - CACHE_EXPIRY),
      [whats_wrong |-> EN, possivel_causa |-> PT] }

InitialFiles ==
    { [state |-> "missing", data |-> NoEntries],
      [state |-> "corrupt", data |-> NoEntries] }
    \cup { [state |-> "ok", data |-> d] : d \in [{1} -> InitialEntries] }
    \cup { [state |-> "ok", data |-> d] :
            d \in { x \in [Ids -> InitialEntries] :
                       x[1] # x[2] /\ "timestamp" \in DOMAIN x[2] } }

----------------------------------------------------------------------------
(* The retrying transport and the rate limiter *)

\* wait_time = (2 ** retry_count) * 1
wait_time_linear(retry_count) == 2 * retry_count

wait_time(retry_count) == (2 ^ retry_count) * 1

\* if retry_count < self.MAX_RETRIES
may_retry_once_more(retry_count) == retry_count <= MAX_RETRIES

may_retry(retry_count) == retry_count < MAX_RETRIES

\* _check_rate_limit, under the lock
_check_rate_limit(count, last, t) ==
    LET time_diff == t - last
        expired == time_diff >= summary_rate_window
        count1 == IF expired THEN 0 ELSE count
        last1 == IF expired THEN t ELSE last
        wait == summary_rate_window - time_diff
    IN  IF count1 >= summary_rate_limit /\ wait > 0
        THEN [count |-> 0, last |-> t + wait, now |-> t + wait, slept |-> wait]
        ELSE [count |-> count1, last |-> last1, now |-> t, slept |-> 0]

----------------------------------------------------------------------------
(* Frames *)

\* the cache and the file as a call of get_issue_summary found them
NoSnapshot == [cache |-> <<>>, file |-> [state |-> "missing", data |-> <<>>]]

\* the file object of a save under way: the keys its dump began with and the text
\* it has buffered
NoWriter == [keys |-> {}, text |-> "none", buffer |-> NoEntries]

GisOff == [pc |-> "off", issue_id |-> 0, response |-> NoResponse, count_read |-> 0,
           whats_wrong |-> EMPTY, possible_cause |-> EMPTY, slot |-> "",
           ret |-> <<>>, path |-> "", raised |-> FALSE, writer |-> NoWriter,
           at_call |-> NoSnapshot]

MrOff == [pc |-> "off", purpose |-> "", endpoint |-> 0, retry_count |-> 0, response |-> NoResponse,
          error |-> NoError, caught |-> NoError, sleeps |-> <<>>, attempts |-> 0,
          started |-> 0]

TwOff == [pc |-> "off", text |-> EMPTY, caller |-> "", result |-> EMPTY, requests |-> 0,
          outcome |-> ""]

\* the DataFrame returned is (columns, result): its header and its rows
DfOff == [pc |-> "idle", issues |-> <<>>, k |-> 0, data |-> <<>>,
          what_happened |-> EMPTY, possible_cause |-> EMPTY, slot |-> "",
          result |-> <<>>, columns |-> <<>>, pauses |-> <<>>]

NoPriorities == [title \in {} |-> "low"]

RunOff == [pc |-> "off", q |-> 0, priorities |-> "", issues |-> <<>>, sheets |-> <<>>,
           book |-> <<>>, failed |-> 0, results |-> <<>>,
           bulk_queries |-> 0, lookups |-> 0, title |-> "", priority |-> "",
           lru_cache |-> NoPriorities]

BatOff == [pc |-> "off", batch_ids |-> <<>>, future_to_id |-> <<>>, results |-> <<>>,
           completed |-> <<>>]

NoBurst == [start |-> 0, n |-> 0]
NoBursts == [summary |-> NoBurst, translation |-> NoBurst]

\* one more request to an endpoint at time t: the requests counted in a burst
\* all lie in the interval [start, start + window)
Count(burst, t, window, limit) ==
    IF burst.n > 0 /\ t - burst.start < window
    THEN [burst EXCEPT !.n = IF burst.n > limit THEN burst.n ELSE burst.n + 1]
    ELSE [start |-> t, n |-> 1]

\* the observer after a request to an endpoint; it counts when it watches
Observe(endpoint, t, window, limit) ==
    IF sent.watching
    THEN [sent EXCEPT !.bursts[endpoint] = Count(@, t, window, limit)]
    ELSE sent

\* the lists of issues create_issues_dataframe is called with
IssueLists ==
    { <<>>,
      <<[id |-> 1]>>,
      <<[id |-> 2], [id |-> 1]>> }

\* lists of one batch, of whole batches, and of whole batches and a part of one
PacedLengths == {0, 1, 5, 6, 10, 11}
PacedIssueLists ==
    { [i \in 1..n |-> [id |-> IF i % 2 = 1 THEN 1 ELSE 2]] : n \in PacedLengths }

\* a list longer than a batch
LongIssueLists ==
    { <<[id |-> 1], [id |-> 2], [id |-> 1], [id |-> 2], [id |-> 1], [id |-> 2],
        [id |-> 1], [id |-> 2], [id |-> 1], [id |-> 2], [id |-> 1], [id |-> 2]>> }

----------------------------------------------------------------------------
(* Construction: SentryClient.__init__ *)

Constructed(f, t) ==
    /\ _summary_cache = _load_summary_cache(f, t)
    /\ last_summary_request = t
    /\ summary_requests_count = 0
    /\ _last_translation = t
    /\ _translation_count = 0

Init ==
    /\ now = StartTime
    /\ file \in InitialFiles
    /\ Constructed(file, now)
    /\ gis = [t \in Threads |-> GisOff]
    /\ mr = [t \in Threads |-> MrOff]
    /\ tw = [t \in Threads |-> TwOff]
    /\ dfr = DfOff
    /\ boot = [fresh |-> TRUE, at |-> now, flushed |-> FALSE]
    /\ sent = [watching |-> FALSE, bursts |-> NoBursts, acquired |-> 0]
    /\ weather \in Weathers
    /\ ticks = 0
    /\ restarts = 0
    /\ calls = 0
    /\ _priority_cache = NoPriorities
    /\ run = RunOff
    /\ bat = BatOff

\* the process ends, or is killed, at any point after its first store into the cache,
\* and a new run constructs a new client
Restart ==
    /\ restarts < MaxRestarts
    /\ ~boot.fresh
    /\ restarts' = restarts + 1
    /\ _summary_cache' = _load_summary_cache(file, now)
    /\ last_summary_request' = now
    /\ summary_requests_count' = 0
    /\ _last_translation' = now
    /\ _translation_count' = 0
    /\ gis' = [t \in Threads |-> GisOff]
    /\ mr' = [t \in Threads |-> MrOff]
    /\ tw' = [t \in Threads |-> TwOff]
    /\ dfr' = DfOff
    /\ boot' = [fresh |-> TRUE, at |-> now, flushed |-> FALSE]
    /\ sent' = [sent EXCEPT !.acquired = 0]
    /\ UNCHANGED <<now, file, weather, ticks, calls>>
    /\ UNCHANGED report

\* time passes
Tick ==
    /\ ticks < MaxTicks
    /\ dfr.pc \in {"idle", "done"}
    /\ tw["main"].pc = "off"
    /\ \E d \in TickSteps : now' = now + d
    /\ ticks' = ticks + 1
    /\ UNCHANGED <<file, client, gis, mr, tw, dfr, boot, sent, weather, restarts, calls>>
    /\ UNCHANGED report

----------------------------------------------------------------------------
(* _make_request(method, endpoint, retry_count=0) *)

\* one attempt: session.request, raise_for_status, and the except clause
\* (the recursive call with retry_count + 1 is the next attempt of this frame)
_make_request_attempt(t) ==
    /\ mr[t].pc = "send"
    /\ sent' = IF mr[t].purpose = "summarize"
               THEN Observe("summary", now, summary_rate_window, summary_rate_limit)
               ELSE sent
    /\ \/ \E response \in Responses(mr[t].endpoint) :
            /\ ~raises_for_status(response)
            /\ response.body \in {InvalidBody, EmptySummary} => weather = "body"
            /\ may_answer(response, mr[t].retry_count)
            /\ mr' = [mr EXCEPT ![t].pc = "ret", ![t].response = response,
                                ![t].attempts = @ + 1]
            /\ UNCHANGED now
       \/ \E e \in { [kind |-> "HTTPError", status_code |-> r.status_code,
                      attempt |-> mr[t].retry_count] :
                        r \in {x \in Responses(mr[t].endpoint) : raises_for_status(x)} }
                   \cup { [kind |-> "ConnectionError", status_code |-> 0,
                           attempt |-> mr[t].retry_count] } :
            /\ transport_fails(mr[t].endpoint)
            /\ IF may_retry(mr[t].retry_count)
               THEN /\ now' = now + wait_time(mr[t].retry_count)
                    /\ mr' = [mr EXCEPT ![t].retry_count = @ + 1,
                                        ![t].attempts = @ + 1,
                                        ![t].caught = e,
                                        ![t].sleeps = Append(@, wait_time(mr[t].retry_count))]
               ELSE /\ now' = now
                    /\ mr' = [mr EXCEPT ![t].pc = "ret", ![t].error = e,
                                        ![t].attempts = @ + 1,
                                        ![t].caught = e]
    /\ UNCHANGED <<file, client, gis, tw, dfr, boot, weather, ticks, restarts, calls>>
    /\ UNCHANGED report

----------------------------------------------------------------------------
(* _translate_with_ai(text) *)

\* the frame of a call: the sentinel and the empty text return at once
_translate_with_ai_call(text, caller) ==
    IF text = EMPTY \/ text = NOT_AVAILABLE
    THEN [pc |-> "ret", text |-> text, caller |-> caller,
          result |-> NOT_AVAILABLE, requests |-> 0, outcome |-> "guard"]
    ELSE [pc |-> "send", text |-> text, caller |-> caller,
          result |-> EMPTY, requests |-> 0, outcome |-> ""]

\* return text: after a 200 without "choices", another status, or an exception
untranslated_lost(text) == NOT_AVAILABLE

untranslated(text) == text

\* what may go wrong with one request to the translation endpoint (429 apart)
TranslationFailures == {"200 without choices", "500", "timeout"}

\* requests.post and what follows it; on 429 the recursive call with the same
\* text is the next post of this frame
_translate_with_ai_post(t) ==
    /\ tw[t].pc = "send"
    /\ sent' = Observe("translation", now, translation_window, _translation_rate_limit)
    /\ \/ \E text \in TranslationOutputs :      \* 200 with "choices"
            /\ tw' = [tw EXCEPT ![t].pc = "ret", ![t].result = text,
                                ![t].requests = @ + 1, ![t].outcome = "200"]
            /\ UNCHANGED now
       \/ \E other \in TranslationFailures :
            /\ weather = "translation"
            /\ tw' = [tw EXCEPT ![t].pc = "ret", ![t].result = untranslated(tw[t].text),
                                ![t].requests = @ + 1, ![t].outcome = other]
            /\ UNCHANGED now
       \/ /\ weather = "translation"           \* 429
          /\ tw[t].requests < Max429
          /\ now' = now + translation_429_sleep
          /\ tw' = [tw EXCEPT ![t].requests = @ + 1, ![t].outcome = "429"]
    /\ UNCHANGED <<file, client, gis, mr, dfr, boot, weather, ticks, restarts, calls>>
    /\ UNCHANGED report

----------------------------------------------------------------------------
(* get_issue_summary(issue_id) *)

\* the frame of a call
get_issue_summary_call(issue_id) ==
    [GisOff EXCEPT !.pc = "check", !.issue_id = issue_id,
                   !.at_call = [cache |-> _summary_cache, file |-> file]]

\* the cache check
get_issue_summary_check(t) ==
    /\ gis[t].pc = "check"
    /\ LET id == gis[t].issue_id
           present == id \in DOMAIN _summary_cache
       IN  gis' = [gis EXCEPT ![t] =
              IF ~present THEN [@ EXCEPT !.pc = "limit"]
              ELSE IF "timestamp" \notin DOMAIN _summary_cache[id]
              THEN [@ EXCEPT !.pc = "ret", !.raised = TRUE, !.path = "KeyError"]
              ELSE IF cache_entry_valid(_summary_cache[id], now)
              THEN [@ EXCEPT !.pc = "ret", !.path = "cache",
                             !.ret = <<_summary_cache[id].whats_wrong,
                                       _summary_cache[id].possivel_causa>>]
              ELSE [@ EXCEPT !.pc = "limit"]]
    /\ UNCHANGED <<now, file, client, mr, tw, dfr, boot, sent, weather, ticks, restarts, calls>>
    /\ UNCHANGED report

\* self._check_rate_limit()
get_issue_summary_limit(t) ==
    /\ gis[t].pc = "limit"
    /\ LET r == _check_rate_limit(summary_requests_count, last_summary_request, now)
       IN  /\ summary_requests_count' = r.count
           /\ last_summary_request' = r.last
           /\ now' = r.now
           /\ sent' = IF sent.watching
                      THEN [sent EXCEPT !.acquired =
                              IF r.last # last_summary_request THEN 1 ELSE @ + 1]
                      ELSE sent
    /\ gis' = [gis EXCEPT ![t].pc = "request"]
    /\ UNCHANGED <<file, _summary_cache, _translation_count, _last_translation,
                   mr, tw, dfr, boot, weather, ticks, restarts, calls>>
    /\ UNCHANGED report

\* response = self._make_request('POST', endpoint): the call
get_issue_summary_request(t) ==
    /\ gis[t].pc = "request"
    /\ mr[t].pc = "off"
    /\ mr' = [mr EXCEPT ![t] = [MrOff EXCEPT !.pc = "send", !.purpose = "summarize",
                                                 !.endpoint = gis[t].issue_id,
                                                 !.started = now]]
    /\ gis' = [gis EXCEPT ![t].pc = "await"]
    /\ UNCHANGED <<now, file, client, tw, dfr, boot, sent, weather, ticks, restarts, calls>>
    /\ UNCHANGED report

\* the except clause of get_issue_summary, and the return that follows it
on_exception_reraised(frame) ==
    [frame EXCEPT !.pc = "ret", !.path = "fail", !.raised = TRUE]

on_exception(frame) ==
    [frame EXCEPT !.pc = "ret", !.path = "fail",
                  !.ret = <<NOT_AVAILABLE, NOT_AVAILABLE>>]

\* ... the return of _make_request: a response, or its exception
get_issue_summary_response(t) ==
    /\ gis[t].pc = "await"
    /\ mr[t].pc = "ret"
    /\ gis' = [gis EXCEPT ![t] =
                 IF mr[t].error # NoError THEN on_exception(@)
                 ELSE [@ EXCEPT !.pc = "count", !.response = mr[t].response,
                                !.count_read = summary_requests_count]]
    /\ mr' = [mr EXCEPT ![t] = MrOff]
    /\ UNCHANGED <<now, file, client, tw, dfr, boot, sent, weather, ticks, restarts, calls>>
    /\ UNCHANGED report

\* self.summary_requests_count += 1: the store of the value read, plus one
get_issue_summary_count(t) ==
    /\ gis[t].pc = "count"
    /\ summary_requests_count' = gis[t].count_read + 1
    /\ gis' = [gis EXCEPT ![t].pc = "status"]
    /\ UNCHANGED <<now, file, _summary_cache, last_summary_request, _translation_count,
                   _last_translation, mr, tw, dfr, boot, sent, weather, ticks, restarts, calls>>
    /\ UNCHANGED report

\* if response.status_code == 200
status_is_2xx(response) == response.status_code \in 200..299

status_is_200(response) == response.status_code = 200

\* the branches on response.status_code
get_issue_summary_status(t) ==
    /\ gis[t].pc = "status"
    /\ LET response == gis[t].response
       IN  IF response.status_code = 429
           THEN /\ now' = now + summary_rate_window
                /\ summary_requests_count' = 0
                /\ last_summary_request' = now'
                /\ gis' = [gis EXCEPT ![t].pc = "check"]
                /\ sent' = [sent EXCEPT !.acquired = 0]
           ELSE /\ gis' = [gis EXCEPT ![t] =
                    IF ~status_is_200(response)
                    THEN [@ EXCEPT !.pc = "ret", !.path = "fail",
                                   !.ret = <<NOT_AVAILABLE, NOT_AVAILABLE>>]
                    ELSE IF "invalid" \in DOMAIN response.body
                    THEN on_exception(@)
                    ELSE [@ EXCEPT !.pc = "translate", !.slot = "whats_wrong",
                             !.whats_wrong = summary_field(response.body, "whatsWrong"),
                             !.possible_cause = summary_field(response.body, "possibleCause")]]
                /\ UNCHANGED <<now, summary_requests_count, last_summary_request, sent>>
    /\ UNCHANGED <<file, _summary_cache, _translation_count, _last_translation,
                   mr, tw, dfr, boot, weather, ticks, restarts, calls>>
    /\ UNCHANGED report

\* if <field> != self.NOT_AVAILABLE: <field> = self._translate_with_ai(<field>)
get_issue_summary_translate(t) ==
    /\ gis[t].pc = "translate"
    /\ tw[t].pc = "off"
    /\ LET slot == gis[t].slot
           next == IF slot = "whats_wrong"
                   THEN [gis[t] EXCEPT !.slot = "possible_cause"]
                   ELSE [gis[t] EXCEPT !.pc = "store", !.slot = ""]
       IN  IF should_translate(gis[t][slot])
           THEN /\ tw' = [tw EXCEPT ![t] = _translate_with_ai_call(gis[t][slot], "get_issue_summary")]
                /\ gis' = [gis EXCEPT ![t].pc = "translating"]
           ELSE /\ gis' = [gis EXCEPT ![t] = next]
                /\ UNCHANGED tw
    /\ UNCHANGED <<now, file, client, mr, dfr, boot, sent, weather, ticks, restarts, calls>>
    /\ UNCHANGED report

\* ... the return of _translate_with_ai
get_issue_summary_translated(t) ==
    /\ gis[t].pc = "translating"
    /\ tw[t].pc = "ret"
    /\ gis' = [gis EXCEPT ![t] =
                 IF @.slot = "whats_wrong"
                 THEN [@ EXCEPT !.pc = "translate", !.whats_wrong = tw[t].result,
                                !.slot = "possible_cause"]
                 ELSE [@ EXCEPT !.pc = "store", !.possible_cause = tw[t].result,
                                !.slot = ""]]
    /\ tw' = [tw EXCEPT ![t] = TwOff]
    /\ UNCHANGED <<now, file, client, mr, dfr, boot, sent, weather, ticks, restarts, calls>>
    /\ UNCHANGED report

\* self._summary_cache[issue_id] = {...}
get_issue_summary_store(t) ==
    /\ gis[t].pc = "store"
    /\ _summary_cache' =
          [k \in DOMAIN _summary_cache \cup {gis[t].issue_id} |->
              IF k = gis[t].issue_id
              THEN Entry(gis[t].whats_wrong, gis[t].possible_cause, now)
              ELSE _summary_cache[k]]
    /\ gis' = [gis EXCEPT ![t].pc = "save"]
    /\ boot' = [boot EXCEPT !.fresh = FALSE]
    /\ UNCHANGED <<now, file, summary_requests_count, last_summary_request,
                   _translation_count, _last_translation, mr, tw, dfr, sent,
                   weather, ticks, restarts, calls>>
    /\ UNCHANGED report

\* self._save_summary_cache(); return whats_wrong, possible_cause
get_issue_summary_save(t) ==
    /\ gis[t].pc = "save"
    /\ \/ /\ file' = _save_summary_cache(file, _summary_cache, "ok")
          /\ boot' = [boot EXCEPT !.flushed = TRUE]
       \/ /\ weather = "disk"
          /\ \E outcome \in {"open_failed", "write_failed"} :
                file' = _save_summary_cache(file, _summary_cache, outcome)
          /\ boot' = [boot EXCEPT !.flushed = FALSE]
    /\ gis' = [gis EXCEPT ![t].pc = "ret", ![t].path = "ok",
                          ![t].ret = <<gis[t].whats_wrong, gis[t].possible_cause>>]
    /\ UNCHANGED <<now, client, mr, tw, dfr, sent, weather, ticks, restarts, calls>>
    /\ UNCHANGED report

\* _save_summary_cache step by step, as threads that run it together see it.
\* open(self.CACHE_FILE, 'w') empties the file; json.dump begins to iterate over
\* the dict
get_issue_summary_save_open(t) ==
    /\ gis[t].pc = "save"
    /\ file' = [state |-> "corrupt", data |-> NoEntries]
    /\ gis' = [gis EXCEPT ![t].pc = "dump",
                          ![t].writer = [NoWriter EXCEPT !.keys = DOMAIN _summary_cache]]
    /\ UNCHANGED <<now, client, mr, tw, dfr, boot, sent, weather, ticks, restarts, calls>>
    /\ UNCHANGED report

\* json.dump ends: it has buffered the whole cache, or a key was added while it
\* iterated and it raised RuntimeError with a part of the text buffered
get_issue_summary_save_dump(t) ==
    /\ gis[t].pc = "dump"
    /\ gis' = [gis EXCEPT ![t].pc = "close",
                          ![t].writer =
                              IF DOMAIN _summary_cache = gis[t].writer.keys
                              THEN [@ EXCEPT !.text = "whole", !.buffer = _summary_cache]
                              ELSE [@ EXCEPT !.text = "partial"]]
    /\ UNCHANGED <<now, file, client, mr, tw, dfr, boot, sent, weather, ticks, restarts,
                   calls>>
    /\ UNCHANGED report

\* the file that a text buffered leaves when it is written from offset 0 over what
\* the file holds: a text that is shorter leaves the end of the other after it
written_over(f, writer) ==
    IF writer.text = "partial" THEN [state |-> "corrupt", data |-> f.data]
    ELSE IF Cardinality(DOMAIN writer.buffer) >= Cardinality(DOMAIN f.data)
    THEN [state |-> "ok", data |-> writer.buffer]
    ELSE [state |-> "corrupt", data |-> f.data]

\* the with block ends: the buffer is written and the file closed; the exception
\* of json.dump, if any, is printed; return whats_wrong, possible_cause
get_issue_summary_save_close(t) ==
    /\ gis[t].pc = "close"
    /\ file' = written_over(file, gis[t].writer)
    /\ gis' = [gis EXCEPT ![t].pc = "ret", ![t].path = "ok", ![t].writer = NoWriter,
                          ![t].ret = <<gis[t].whats_wrong, gis[t].possible_cause>>]
    /\ boot' = [boot EXCEPT !.flushed = (file'.state = "ok")]
    /\ UNCHANGED <<now, client, mr, tw, dfr, sent, weather, ticks, restarts, calls>>
    /\ UNCHANGED report

----------------------------------------------------------------------------
(* _process_summary_batch(batch_ids) *)

\* the batches it is called with
BatchLists == { <<1, 2>>, <<2, 1>>, <<1>> }

\* executor.submit(self.get_issue_summary, id) for each id: one worker for each
_process_summary_batch_call ==
    /\ bat.pc = "off"
    /\ \E batch_ids \in BatchLists :
          /\ bat' = [BatOff EXCEPT !.pc = "waiting", !.batch_ids = batch_ids,
                                   !.future_to_id =
                                       [i \in 1..Len(batch_ids) |->
                                           [worker |-> Workers[i], id |-> batch_ids[i]]]]
          /\ gis' = [t \in Threads |->
                       IF \E i \in 1..Len(batch_ids) : Workers[i] = t
                       THEN get_issue_summary_call(
                                batch_ids[CHOOSE i \in 1..Len(batch_ids) : Workers[i] = t])
                       ELSE gis[t]]
    /\ UNCHANGED <<now, file, client, mr, tw, dfr, boot, sent, weather, ticks, restarts,
                   calls, _priority_cache, run>>

\* for future in as_completed(future_to_id): results.append(future.result())
_process_summary_batch_completed ==
    /\ bat.pc = "waiting"
    /\ \E i \in 1..Len(bat.future_to_id) :
          /\ i \notin {bat.completed[j] : j \in 1..Len(bat.completed)}
          /\ gis[bat.future_to_id[i].worker].pc = "ret"
          /\ bat' = [bat EXCEPT !.results = Append(@, gis[bat.future_to_id[i].worker].ret),
                                !.completed = Append(@, i)]
    /\ UNCHANGED <<now, file, client, gis, mr, tw, dfr, boot, sent, weather, ticks,
                   restarts, calls, _priority_cache, run>>

\* return results
_process_summary_batch_return ==
    /\ bat.pc = "waiting"
    /\ Len(bat.completed) = Len(bat.future_to_id)
    /\ bat' = [bat EXCEPT !.pc = "done"]
    /\ UNCHANGED <<now, file, client, gis, mr, tw, dfr, boot, sent, weather, ticks,
                   restarts, calls, _priority_cache, run>>

----------------------------------------------------------------------------
(* create_issues_dataframe(issues) *)

\* the frame of a call: if not issues: return pd.DataFrame()
create_issues_dataframe_enter(issues) ==
    IF issues = <<>>
    THEN [DfOff EXCEPT !.pc = "done"]
    ELSE [DfOff EXCEPT !.pc = "summary", !.issues = issues, !.k = 1]

\* the call: an empty list returns an empty frame at once
create_issues_dataframe(lists) ==
    /\ dfr.pc \in {"idle", "done"}
    /\ gis["main"].pc = "off"
    /\ tw["main"].pc = "off"
    /\ calls < MaxCalls
    /\ calls' = calls + 1
    /\ \E issues \in lists : dfr' = create_issues_dataframe_enter(issues)
    /\ UNCHANGED <<now, file, client, gis, mr, tw, boot, sent, weather, ticks, restarts>>
    /\ UNCHANGED report

create_issues_dataframe_call == create_issues_dataframe(IssueLists)

create_issues_dataframe_call_long == create_issues_dataframe(LongIssueLists)

create_issues_dataframe_call_paced == create_issues_dataframe(PacedIssueLists)

\* what_happened, possible_cause = self.get_issue_summary(issue_id): the call
create_issues_dataframe_summary ==
    /\ dfr.pc = "summary"
    /\ gis["main"].pc = "off"
    /\ gis' = [gis EXCEPT !["main"] = get_issue_summary_call(dfr.issues[dfr.k].id)]
    /\ dfr' = [dfr EXCEPT !.pc = "summarizing"]
    /\ UNCHANGED <<now, file, client, mr, tw, boot, sent, weather, ticks, restarts, calls>>
    /\ UNCHANGED report

\* ... its return; an exception of get_issue_summary is not caught here
create_issues_dataframe_summarized ==
    /\ dfr.pc = "summarizing"
    /\ gis["main"].pc = "ret"
    /\ dfr' = IF gis["main"].raised
              THEN [dfr EXCEPT !.pc = "raised"]
              ELSE [dfr EXCEPT !.pc = "force", !.slot = "what_happened",
                               !.what_happened = gis["main"].ret[1],
                               !.possible_cause = gis["main"].ret[2]]
    /\ gis' = [gis EXCEPT !["main"] = GisOff]
    /\ UNCHANGED <<now, file, client, mr, tw, boot, sent, weather, ticks, restarts, calls>>
    /\ UNCHANGED report

\* the keys of issue_data, in order: the columns of a DataFrame that has rows
issue_data_columns ==
    <<"report_date", "title", "count", "users_affected", "environment", "status",
      "level", "first_seen", "last_seen", "short_id", "culprit", "permalink",
      "o_que_aconteceu", "possivel_causa">>

\* the record of one issue: the columns the report is read by, and the id of the
\* issue it was built from
issue_data(issue, what_happened, possible_cause) ==
    [id |-> issue.id,
     title |-> Get(issue, "title", "None"),
     count |-> Get(issue, "count", Num(0)),
     users_affected |-> Get(issue, "userCount", 0),
     o_que_aconteceu |-> what_happened, possivel_causa |-> possible_cause]

\* '<' on two strings: character by character
RECURSIVE str_lt(_, _)
str_lt(a, b) ==
    IF b = <<>> THEN FALSE
    ELSE IF a = <<>> THEN TRUE
    ELSE IF a[1] # b[1] THEN a[1] < b[1]
    ELSE str_lt(Tail(a), Tail(b))

\* '<' on two values of the column "count", both numbers or both strings
count_lt(a, b) == IF "int" \in DOMAIN a THEN a.int < b.int ELSE str_lt(a.str, b.str)

\* r1 is placed before r2 by sort_values(['count', 'users_affected'],
\* ascending=[False, False])
sorts_before(r1, r2) ==
    \/ count_lt(r2.count, r1.count)
    \/ r1.count = r2.count /\ r1.users_affected > r2.users_affected

\* the sort keeps the order of rows that are equal in both columns
RECURSIVE insert_row(_, _)
insert_row(sorted, r) ==
    IF sorted = <<>> THEN <<r>>
    ELSE IF sorts_before(r, sorted[1]) THEN <<r>> \o sorted
    ELSE <<sorted[1]>> \o insert_row(Tail(sorted), r)

RECURSIVE sort_values(_)
sort_values(rows) ==
    IF rows = <<>> THEN <<>>
    ELSE insert_row(sort_values(SubSeq(rows, 1, Len(rows) - 1)), rows[Len(rows)])

\* time.sleep(2) when i + batch_size < len(issues), after the batch's last issue
pause_after_every_batch(frame) ==
    IF frame.k % batch_size = 0 THEN batch_pause ELSE 0

pause_after(frame) ==
    IF frame.k % batch_size = 0 /\ frame.k < Len(frame.issues) THEN batch_pause ELSE 0

\* data.append(issue_data), the pause after a full batch that is not the last,
\* and after the last issue df = pd.DataFrame(data), the sort, and the return
append_issue(frame) ==
    LET data == Append(frame.data,
                       issue_data(frame.issues[frame.k], frame.what_happened,
                                  frame.possible_cause))
        pauses == IF pause_after(frame) > 0
                  THEN Append(frame.pauses,
                              [after |-> frame.k, seconds |-> pause_after(frame)])
                  ELSE frame.pauses
    IN  IF frame.k = Len(frame.issues)
        THEN [frame EXCEPT !.pc = "done", !.data = data, !.result = sort_values(data),
                           !.columns = issue_data_columns, !.slot = "",
                           !.pauses = pauses]
        ELSE [frame EXCEPT !.pc = "summary", !.data = data, !.k = @ + 1, !.slot = "",
                           !.pauses = pauses]

\* the forced translation of a field that is not judged Portuguese
create_issues_dataframe_force ==
    /\ dfr.pc = "force"
    /\ tw["main"].pc = "off"
    /\ IF should_force_translation(dfr[dfr.slot])
       THEN /\ tw' = [tw EXCEPT !["main"] =
                        _translate_with_ai_call(dfr[dfr.slot], "create_issues_dataframe")]
            /\ dfr' = [dfr EXCEPT !.pc = "forcing"]
            /\ UNCHANGED now
       ELSE /\ UNCHANGED tw
            /\ IF dfr.slot = "what_happened"
               THEN /\ dfr' = [dfr EXCEPT !.slot = "possible_cause"]
                    /\ UNCHANGED now
               ELSE /\ dfr' = append_issue(dfr)
                    /\ now' = now + pause_after(dfr)
    /\ UNCHANGED <<file, client, gis, mr, boot, sent, weather, ticks, restarts, calls>>
    /\ UNCHANGED report

\* ... the return of the forced translation
create_issues_dataframe_forced ==
    /\ dfr.pc = "forcing"
    /\ tw["main"].pc = "ret"
    /\ tw' = [tw EXCEPT !["main"] = TwOff]
    /\ IF dfr.slot = "what_happened"
       THEN /\ dfr' = [dfr EXCEPT !.pc = "force", !.slot = "possible_cause",
                                  !.what_happened = tw["main"].result]
            /\ UNCHANGED now
       ELSE /\ dfr' = append_issue([dfr EXCEPT !.possible_cause = tw["main"].result])
            /\ now' = now + pause_after(dfr)
    /\ UNCHANGED <<file, client, gis, mr, boot, sent, weather, ticks, restarts, calls>>
    /\ UNCHANGED report

\* a caller of the class translates a text of its own
translate_call ==
    /\ dfr.pc \in {"idle", "done"}
    /\ tw["main"].pc = "off"
    /\ calls < MaxCalls
    /\ calls' = calls + 1
    /\ \E text \in {NOT_AVAILABLE, EMPTY, EN} :
          tw' = [tw EXCEPT !["main"] = _translate_with_ai_call(text, "caller")]
    /\ UNCHANGED <<now, file, client, gis, mr, dfr, boot, sent, weather, ticks, restarts>>
    /\ UNCHANGED report

translate_return ==
    /\ tw["main"].pc = "ret"
    /\ tw["main"].caller = "caller"
    /\ tw' = [tw EXCEPT !["main"] = TwOff]
    /\ UNCHANGED <<now, file, client, gis, mr, dfr, boot, sent, weather, ticks, restarts, calls>>
    /\ UNCHANGED report

----------------------------------------------------------------------------
(* The report run: test_sentry_connection, SentryClient.__init__ from line 44,
   generate_multi_sheet_report and save_multi_sheet_report *)

\* the names of the sheets, in the order of the dict returned
sheet_names == <<"Erros_Med_Alta", "Alta_Prioridade", "Baixa_Prioridade", "Nao_Erros">>

\* the header written for an empty DataFrame
empty_sheet_columns ==
    <<"report_date", "title", "count", "users_affected", "environment", "status",
      "level", "first_seen", "last_seen", "short_id", "culprit", "permalink",
      "o_que_aconteceu", "possivel_causa">>

\* _get_issue_priority(issue_title)
_get_issue_priority(issue_title) == Get(_priority_cache, issue_title, "low")

\* the loop of _get_all_issues_with_priorities over the issues returned
RECURSIVE cache_priorities(_, _)
cache_priorities(cache, issues) ==
    IF issues = <<>> THEN cache
    ELSE LET issue == issues[1]
             title == Get(issue, "title", "")
             priority == lower(Get(issue, "priority", "low"))
             cache1 == IF title = "" THEN cache
                       ELSE [t \in DOMAIN cache \cup {title} |->
                               IF t = title THEN priority ELSE cache[t]]
         IN  cache_priorities(cache1, Tail(issues))

\* self._get_all_issues_with_priorities() in __init__: the request
_get_all_issues_with_priorities_call ==
    /\ run.pc = "construct"
    /\ mr["main"].pc = "off"
    /\ mr' = [mr EXCEPT !["main"] = [MrOff EXCEPT !.pc = "send", !.purpose = "priorities",
                                                  !.endpoint = ISSUES, !.started = now]]
    /\ run' = [run EXCEPT !.pc = "priorities", !.bulk_queries = @ + 1]
    /\ UNCHANGED <<now, file, client, gis, tw, dfr, boot, sent, weather, ticks, restarts,
                   calls, _priority_cache, bat>>

\* ... its return: an exception is caught and printed, the value returned is not
\* looked at, and test_sentry_connection goes on to generate_multi_sheet_report
_get_all_issues_with_priorities_return ==
    /\ run.pc = "priorities"
    /\ mr["main"].pc = "ret"
    /\ IF mr["main"].error # NoError
       THEN /\ run' = [run EXCEPT !.pc = "query", !.q = 1, !.priorities = "exhausted"]
            /\ UNCHANGED _priority_cache
       ELSE IF mr["main"].response.body = InvalidBody
       THEN /\ run' = [run EXCEPT !.pc = "query", !.q = 1, !.priorities = "unreadable"]
            /\ UNCHANGED _priority_cache
       ELSE /\ run' = [run EXCEPT !.pc = "query", !.q = 1, !.priorities = "ok"]
            /\ _priority_cache' =
                  cache_priorities(_priority_cache, mr["main"].response.body.issues)
    /\ mr' = [mr EXCEPT !["main"] = MrOff]
    /\ UNCHANGED <<now, file, client, gis, tw, dfr, boot, sent, weather, ticks, restarts,
                   calls, bat>>

\* the titles a caller asks the priority of: one that Sentry lists and three that
\* it does not
LookupTitles == {"A", "X", "Y", "Z"}

\* functools.lru_cache: the value remembered for the arguments of a call
remember(lru, title, priority) ==
    [t \in DOMAIN lru \cup {title} |-> IF t = title THEN priority ELSE lru[t]]

\* get_initial_priority(issue_title) on the client constructed: the value that
\* lru_cache remembers, or the value in self._priority_cache, or the request of
\* self._get_all_issues_with_priorities()
get_initial_priority_call ==
    /\ run.pc = "query"
    /\ mr["main"].pc = "off"
    /\ run.lookups < MaxLookups
    /\ \E issue_title \in LookupTitles :
          IF issue_title \in DOMAIN run.lru_cache
          THEN /\ run' = [run EXCEPT !.lookups = @ + 1, !.title = issue_title,
                                     !.priority = run.lru_cache[issue_title]]
               /\ UNCHANGED mr
          ELSE IF issue_title \in DOMAIN _priority_cache
          THEN /\ run' = [run EXCEPT !.lookups = @ + 1, !.title = issue_title,
                                     !.priority = _priority_cache[issue_title],
                                     !.lru_cache = remember(@, issue_title,
                                                            _priority_cache[issue_title])]
               /\ UNCHANGED mr
          ELSE /\ run' = [run EXCEPT !.pc = "lookup", !.lookups = @ + 1,
                                     !.title = issue_title, !.priority = "",
                                     !.bulk_queries = @ + 1]
               /\ mr' = [mr EXCEPT !["main"] =
                            [MrOff EXCEPT !.pc = "send", !.purpose = "priorities",
                                          !.endpoint = ISSUES, !.started = now]]
    /\ UNCHANGED <<now, file, client, gis, tw, dfr, boot, sent, weather, ticks, restarts,
                   calls, _priority_cache, bat>>

\* ... the return of self._get_all_issues_with_priorities(): when it is True the
\* value is self._priority_cache.get(issue_title, 'low'), otherwise 'low'
get_initial_priority_return ==
    /\ run.pc = "lookup"
    /\ mr["main"].pc = "ret"
    /\ LET failed == mr["main"].error # NoError \/ mr["main"].response.body = InvalidBody
           cache == IF failed THEN _priority_cache
                    ELSE cache_priorities(_priority_cache, mr["main"].response.body.issues)
           priority == Get(cache, run.title, "low")
       IN  /\ _priority_cache' = cache
           /\ run' = [run EXCEPT !.pc = "query", !.priority = priority,
                                 !.lru_cache = remember(@, run.title, priority)]
    /\ mr' = [mr EXCEPT !["main"] = MrOff]
    /\ UNCHANGED <<now, file, client, gis, tw, dfr, boot, sent, weather, ticks, restarts,
                   calls, bat>>

\* self.get_issues(params) for the query run.q: the request
get_issues_call ==
    /\ run.pc = "query"
    /\ mr["main"].pc = "off"
    /\ mr' = [mr EXCEPT !["main"] = [MrOff EXCEPT !.pc = "send", !.purpose = "issues",
                                                  !.endpoint = ISSUES, !.started = now]]
    /\ run' = [run EXCEPT !.pc = "fetching"]
    /\ UNCHANGED <<now, file, client, gis, tw, dfr, boot, sent, weather, ticks, restarts,
                   calls, _priority_cache, bat>>

\* ... its return: an exception of _make_request or of response.json() is caught
\* by test_sentry_connection alone, which prints it and returns False
get_issues_return ==
    /\ run.pc = "fetching"
    /\ mr["main"].pc = "ret"
    /\ run' = IF mr["main"].error # NoError \/ mr["main"].response.body = InvalidBody
              THEN [run EXCEPT !.pc = "aborted", !.failed = run.q]
              ELSE [run EXCEPT !.pc = "dataframe",
                               !.issues = mr["main"].response.body.issues,
                               !.results = Append(@, mr["main"].response.body.issues)]
    /\ mr' = [mr EXCEPT !["main"] = MrOff]
    /\ UNCHANGED <<now, file, client, gis, tw, dfr, boot, sent, weather, ticks, restarts,
                   calls, _priority_cache, bat>>

\* <name>_df = self.create_issues_dataframe(<issues>): the call
generate_multi_sheet_report_dataframe ==
    /\ run.pc = "dataframe"
    /\ dfr.pc \in {"idle", "done"}
    /\ dfr' = create_issues_dataframe_enter(run.issues)
    /\ run' = [run EXCEPT !.pc = "enriching"]
    /\ UNCHANGED <<now, file, client, gis, mr, tw, boot, sent, weather, ticks, restarts,
                   calls, _priority_cache, bat>>

\* ... its return; after the fourth, the dict of the four DataFrames is returned
generate_multi_sheet_report_collect ==
    /\ run.pc = "enriching"
    /\ dfr.pc = "done"
    /\ run' = [run EXCEPT !.pc = IF run.q < Len(sheet_names) THEN "query" ELSE "save",
                          !.q = IF run.q < Len(sheet_names) THEN @ + 1 ELSE @,
                          !.issues = <<>>,
                          !.sheets = Append(@, [name |-> sheet_names[run.q],
                                                columns |-> dfr.columns,
                                                rows |-> dfr.result])]
    /\ dfr' = DfOff
    /\ UNCHANGED <<now, file, client, gis, mr, tw, boot, sent, weather, ticks, restarts,
                   calls, _priority_cache, bat>>

\* the sheet written for one DataFrame
to_excel_as_is(df) == df

to_excel(df) ==
    IF df.rows = <<>>
    THEN [name |-> df.name, columns |-> empty_sheet_columns, rows |-> <<>>]
    ELSE df

\* client.save_multi_sheet_report(dataframes)
save_multi_sheet_report ==
    /\ run.pc = "save"
    /\ run' = [run EXCEPT !.pc = "done",
                          !.book = [i \in 1..Len(run.sheets) |-> to_excel(run.sheets[i])]]
    /\ UNCHANGED <<now, file, client, gis, mr, tw, dfr, boot, sent, weather, ticks,
                   restarts, calls, _priority_cache, bat>>

----------------------------------------------------------------------------
(* The specification *)

Next ==
    \/ Tick
    \/ Restart
    \/ create_issues_dataframe_call
    \/ create_issues_dataframe_summary
    \/ create_issues_dataframe_summarized
    \/ create_issues_dataframe_force
    \/ create_issues_dataframe_forced
    \/ translate_call
    \/ translate_return
    \/ \E t \in Threads :
          \/ get_issue_summary_check(t)
          \/ get_issue_summary_limit(t)
          \/ get_issue_summary_request(t)
          \/ get_issue_summary_response(t)
          \/ get_issue_summary_count(t)
          \/ get_issue_summary_status(t)
          \/ get_issue_summary_translate(t)
          \/ get_issue_summary_translated(t)
          \/ get_issue_summary_store(t)
          \/ get_issue_summary_save(t)
          \/ _make_request_attempt(t)
          \/ _translate_with_ai_post(t)

Spec == Init /\ [][Next]_vars

(* Runs over lists longer than a batch, with the observer of requests watching *)

InitLong ==
    /\ now = StartTime
    /\ file \in { [state |-> "missing", data |-> NoEntries],
                   [state |-> "ok", data |-> [k \in {1} |-> Entry(PT, EN, StartTime - 1)]] }
    /\ Constructed(file, now)
    /\ gis = [t \in Threads |-> GisOff]
    /\ mr = [t \in Threads |-> MrOff]
    /\ tw = [t \in Threads |-> TwOff]
    /\ dfr = DfOff
    /\ boot = [fresh |-> TRUE, at |-> now, flushed |-> FALSE]
    /\ sent = [watching |-> TRUE, bursts |-> NoBursts, acquired |-> 0]
    /\ weather = "transport"
    /\ ticks = 0
    /\ restarts = 0
    /\ calls = 0
    /\ _priority_cache = NoPriorities
    /\ run = RunOff
    /\ bat = BatOff

NextLong ==
    \/ create_issues_dataframe_call_long
    \/ create_issues_dataframe_summary
    \/ create_issues_dataframe_summarized
    \/ create_issues_dataframe_force
    \/ create_issues_dataframe_forced
    \/ \E t \in Threads :
          \/ get_issue_summary_check(t)
          \/ get_issue_summary_limit(t)
          \/ get_issue_summary_request(t)
          \/ get_issue_summary_response(t)
          \/ get_issue_summary_count(t)
          \/ get_issue_summary_status(t)
          \/ get_issue_summary_translate(t)
          \/ get_issue_summary_translated(t)
          \/ get_issue_summary_store(t)
          \/ get_issue_summary_save(t)
          \/ _make_request_attempt(t)
          \/ _translate_with_ai_post(t)

SpecLong == InitLong /\ [][NextLong]_vars

(* The report run, from the priorities fetched at construction to the book saved *)

InitReport ==
    /\ now = StartTime
    /\ file = [state |-> "ok", data |-> [k \in {1} |-> Entry(PT, EN, StartTime - 1)]]
    /\ Constructed(file, now)
    /\ gis = [t \in Threads |-> GisOff]
    /\ mr = [t \in Threads |-> MrOff]
    /\ tw = [t \in Threads |-> TwOff]
    /\ dfr = DfOff
    /\ boot = [fresh |-> TRUE, at |-> now, flushed |-> FALSE]
    /\ sent = [watching |-> FALSE, bursts |-> NoBursts, acquired |-> 0]
    /\ weather = "listing"
    /\ ticks = 0
    /\ restarts = 0
    /\ calls = 0
    /\ _priority_cache = NoPriorities
    /\ run = [RunOff EXCEPT !.pc = "construct"]
    /\ bat = BatOff

NextReport ==
    \/ _get_all_issues_with_priorities_call
    \/ _get_all_issues_with_priorities_return
    \/ get_issues_call
    \/ get_issues_return
    \/ generate_multi_sheet_report_dataframe
    \/ generate_multi_sheet_report_collect
    \/ save_multi_sheet_report
    \/ create_issues_dataframe_summary
    \/ create_issues_dataframe_summarized
    \/ create_issues_dataframe_force
    \/ create_issues_dataframe_forced
    \/ \E t \in Threads :
          \/ get_issue_summary_check(t)
          \/ get_issue_summary_limit(t)
          \/ get_issue_summary_request(t)
          \/ get_issue_summary_response(t)
          \/ get_issue_summary_count(t)
          \/ get_issue_summary_status(t)
          \/ get_issue_summary_translate(t)
          \/ get_issue_summary_translated(t)
          \/ get_issue_summary_store(t)
          \/ get_issue_summary_save(t)
          \/ _make_request_attempt(t)
          \/ _translate_with_ai_post(t)

SpecReport == InitReport /\ [][NextReport]_vars

(* Priority lookups on a client constructed *)

InitPriority ==
    /\ now = StartTime
    /\ file = [state |-> "missing", data |-> NoEntries]
    /\ Constructed(file, now)
    /\ gis = [t \in Threads |-> GisOff]
    /\ mr = [t \in Threads |-> MrOff]
    /\ tw = [t \in Threads |-> TwOff]
    /\ dfr = DfOff
    /\ boot = [fresh |-> TRUE, at |-> now, flushed |-> FALSE]
    /\ sent = [watching |-> FALSE, bursts |-> NoBursts, acquired |-> 0]
    /\ weather \in {"fair", "listing"}
    /\ ticks = 0
    /\ restarts = 0
    /\ calls = 0
    /\ _priority_cache = NoPriorities
    /\ run = [RunOff EXCEPT !.pc = "construct"]
    /\ bat = BatOff

NextPriority ==
    \/ _get_all_issues_with_priorities_call
    \/ _get_all_issues_with_priorities_return
    \/ get_initial_priority_call
    \/ get_initial_priority_return
    \/ \E t \in Threads : _make_request_attempt(t)

SpecPriority == InitPriority /\ [][NextPriority]_vars

(* create_issues_dataframe on lists of several batches, the services answering *)

InitPaced ==
    /\ now = StartTime
    /\ file \in { [state |-> "missing", data |-> NoEntries],
                   [state |-> "ok", data |-> [k \in {1} |-> Entry(PT, EN, StartTime - 1)]] }
    /\ Constructed(file, now)
    /\ gis = [t \in Threads |-> GisOff]
    /\ mr = [t \in Threads |-> MrOff]
    /\ tw = [t \in Threads |-> TwOff]
    /\ dfr = DfOff
    /\ boot = [fresh |-> TRUE, at |-> now, flushed |-> FALSE]
    /\ sent = [watching |-> FALSE, bursts |-> NoBursts, acquired |-> 0]
    /\ weather = "fair"
    /\ ticks = 0
    /\ restarts = 0
    /\ calls = 0
    /\ _priority_cache = NoPriorities
    /\ run = RunOff
    /\ bat = BatOff

NextPaced ==
    \/ create_issues_dataframe_call_paced
    \/ create_issues_dataframe_summary
    \/ create_issues_dataframe_summarized
    \/ create_issues_dataframe_force
    \/ create_issues_dataframe_forced
    \/ \E t \in Threads :
          \/ get_issue_summary_check(t)
          \/ get_issue_summary_limit(t)
          \/ get_issue_summary_request(t)
          \/ get_issue_summary_response(t)
          \/ get_issue_summary_count(t)
          \/ get_issue_summary_status(t)
          \/ get_issue_summary_translate(t)
          \/ get_issue_summary_translated(t)
          \/ get_issue_summary_store(t)
          \/ get_issue_summary_save(t)
          \/ _make_request_attempt(t)
          \/ _translate_with_ai_post(t)

SpecPaced == InitPaced /\ [][NextPaced]_vars

(* A batch of summaries processed by the thread pool of _process_summary_batch *)

InitBatch ==
    /\ now = StartTime
    /\ file = [state |-> "missing", data |-> NoEntries]
    /\ Constructed(file, now)
    /\ gis = [t \in Threads |-> GisOff]
    /\ mr = [t \in Threads |-> MrOff]
    /\ tw = [t \in Threads |-> TwOff]
    /\ dfr = DfOff
    /\ boot = [fresh |-> TRUE, at |-> now, flushed |-> FALSE]
    /\ sent = [watching |-> FALSE, bursts |-> NoBursts, acquired |-> 0]
    /\ weather = "fair"
    /\ ticks = 0
    /\ restarts = 0
    /\ calls = 0
    /\ _priority_cache = NoPriorities
    /\ run = RunOff
    /\ bat = BatOff

NextBatch ==
    \/ _process_summary_batch_call
    \/ _process_summary_batch_completed
    \/ _process_summary_batch_return
    \/ \E t \in Threads :
          \/ get_issue_summary_check(t)
          \/ get_issue_summary_limit(t)
          \/ get_issue_summary_request(t)
          \/ get_issue_summary_response(t)
          \/ get_issue_summary_count(t)
          \/ get_issue_summary_status(t)
          \/ get_issue_summary_translate(t)
          \/ get_issue_summary_translated(t)
          \/ get_issue_summary_store(t)
          \/ get_issue_summary_save_open(t)
          \/ get_issue_summary_save_dump(t)
          \/ get_issue_summary_save_close(t)
          \/ _make_request_attempt(t)
          \/ _translate_with_ai_post(t)

SpecBatch == InitBatch /\ [][NextBatch]_vars

----------------------------------------------------------------------------
(* Properties *)

Sum(seq) == IF seq = <<>> THEN 0
            ELSE IF Len(seq) = 1 THEN seq[1]
            ELSE IF Len(seq) = 2 THEN seq[1] + seq[2]
            ELSE IF Len(seq) = 3 THEN seq[1] + seq[2] + seq[3]
            ELSE seq[1] + seq[2] + seq[3] + seq[4]

\* an entry of the cache that has not expired at time t
Unexpired(entry, t) == t - Get(entry, "timestamp", 0) < CACHE_EXPIRY

\* the entries a file holds: a missing or unreadable file holds none
FileEntries(f) == IF f.state = "ok" THEN f.data ELSE NoEntries

\* C1: a call of get_issue_summary for an id whose cache entry has not expired
\* returns the cached pair in its next step (unless the process is killed first), sends nothing (no frame of _make_request
\* or _translate_with_ai changes) and leaves the cache, the file, the clock and the
\* counters of both rate limiters as they were.
C1_CacheHitReturnsCached ==
    [][\A t \in Threads :
         LET id == gis[t].issue_id
         IN  ( /\ gis[t].pc = "check"
               /\ gis'[t].pc \notin {"check", "off"}
               /\ id \in DOMAIN _summary_cache
               /\ Unexpired(_summary_cache[id], now) )
             => /\ gis'[t].pc = "ret"
                /\ ~gis'[t].raised
                /\ gis'[t].ret = <<_summary_cache[id].whats_wrong,
                                   _summary_cache[id].possivel_causa>>
                /\ UNCHANGED <<now, file, client, mr, tw, sent>>
    ]_vars

C1_Witness ==
    \E t \in Threads :
        /\ gis[t].pc = "ret"
        /\ gis[t].path = "cache"
        /\ gis[t].ret = <<PT, EN>>
        /\ mr[t] = MrOff /\ tw[t] = TwOff

\* C2: right after a load (no store since), the in-memory cache holds no entry that
\* had expired at load time (no timestamp counts as 0) and holds every entry of the
\* file that had not expired, unchanged, and nothing else.
C2_LoadDropsExpired ==
    boot.fresh =>
        /\ \A k \in DOMAIN _summary_cache : Unexpired(_summary_cache[k], boot.at)
        /\ \A k \in DOMAIN FileEntries(file) :
              Unexpired(FileEntries(file)[k], boot.at)
                  => /\ k \in DOMAIN _summary_cache
                     /\ _summary_cache[k] = FileEntries(file)[k]
        /\ DOMAIN _summary_cache \subseteq DOMAIN FileEntries(file)

C2_Witness ==
    /\ boot.fresh
    /\ file.state = "ok"
    /\ DOMAIN file.data = Ids
    /\ DOMAIN _summary_cache = {1}
    /\ ~Unexpired(file.data[2], boot.at)

\* C3 (as claimed): a step in which the summarize endpoint answers 429 sleeps the
\* full rate window and resets the summary counter and the window start.
C3_Claim ==
    [][\A t \in Threads :
         ( /\ mr[t].pc = "send"
           /\ mr[t].purpose = "summarize"
           /\ mr'[t].attempts = mr[t].attempts + 1
           /\ mr'[t].caught.status_code = 429
           /\ mr'[t].caught.attempt = mr[t].retry_count )
         => /\ now' - now >= summary_rate_window
            /\ summary_requests_count' = 0
            /\ last_summary_request' = now'
    ]_vars

\* C4: a _make_request that returns a response after k failed attempts has slept
\* 1, 2, 4, ... (2^i for i in [0, k)), in that order and nothing else: k sleeps,
\* 2^k - 1 seconds in all, which is the time the call took.
C4_BackoffThenSuccess ==
    \A t \in Threads :
        (mr[t].pc = "ret" /\ mr[t].error = NoError) =>
            LET k == mr[t].attempts - 1
            IN  /\ k >= 0 /\ k <= MAX_RETRIES
                /\ ~raises_for_status(mr[t].response)
                /\ mr[t].response \in Responses(mr[t].endpoint)
                /\ Len(mr[t].sleeps) = k
                /\ \A i \in 1..k : mr[t].sleeps[i] = 2 ^ (i - 1)
                /\ Sum(mr[t].sleeps) = 2 ^ k - 1
                /\ now - mr[t].started = Sum(mr[t].sleeps)

C4_Witness ==
    \E t \in Threads :
        /\ mr[t].pc = "ret"
        /\ mr[t].error = NoError
        /\ mr[t].response.status_code = 200
        /\ mr[t].sleeps = <<1, 2>>

\* C5: a _make_request never makes more than MAX_RETRIES + 1 attempts, and one whose
\* attempts all fail ends after exactly MAX_RETRIES + 1 attempts and MAX_RETRIES
\* sleeps by raising the error of its last attempt.
C5_ExhaustedRetriesRaise ==
    \A t \in Threads :
        /\ mr[t].attempts <= MAX_RETRIES + 1
        /\ (mr[t].pc = "ret" /\ mr[t].error # NoError) =>
              /\ mr[t].attempts = MAX_RETRIES + 1
              /\ Len(mr[t].sleeps) = MAX_RETRIES
              /\ mr[t].error = mr[t].caught
              /\ mr[t].error.attempt = MAX_RETRIES
              /\ mr[t].response = NoResponse

C5_Witness ==
    \E t \in Threads :
        /\ mr[t].pc = "ret"
        /\ mr[t].error.kind = "ConnectionError"
        /\ mr[t].attempts = MAX_RETRIES + 1
        /\ mr[t].sleeps = <<1, 2, 4>>

\* C6 (as claimed): the requests sent to an endpoint within an interval of one
\* window, failed and retried attempts included, never exceed the limit of its
\* category: 10 for summarize, 50 for translation.
C6_Claim ==
    /\ sent.bursts.summary.n <= summary_rate_limit
    /\ sent.bursts.translation.n <= _translation_rate_limit

\* C7 (as claimed): every acquisition of the summary limiter is counted, so at an
\* acquisition the counter equals the acquisitions made in the window, and an
\* acquisition that follows summary_rate_limit acquisitions of an unexpired window
\* blocks for at least the rest of the window.
C7_Claim ==
    [][\A t \in Threads :
         (gis[t].pc = "limit" /\ gis'[t].pc = "request") =>
            LET elapsed == now - last_summary_request
            IN  /\ summary_requests_count = sent.acquired
                /\ (sent.acquired >= summary_rate_limit /\ elapsed < summary_rate_window)
                      => now' - now >= summary_rate_window - elapsed
    ]_vars

\* C8: no call of _translate_with_ai made by get_issue_summary or by
\* create_issues_dataframe has the sentinel as its text, whatever the upstream
\* answered and whatever the cache held; and a call with the sentinel (made by
\* another caller) has returned the sentinel at once, having sent no request.
C8_SentinelNeverTranslated ==
    \A t \in Threads :
        /\ tw[t].caller \in {"get_issue_summary", "create_issues_dataframe"}
              => tw[t].text # NOT_AVAILABLE
        /\ (tw[t].pc # "off" /\ tw[t].text = NOT_AVAILABLE)
              => /\ tw[t].pc = "ret"
                 /\ tw[t].result = NOT_AVAILABLE
                 /\ tw[t].requests = 0

\* the second field is being translated while the first, the sentinel, was skipped
C8_Witness ==
    /\ gis["main"].pc = "translating"
    /\ gis["main"].whats_wrong = NOT_AVAILABLE
    /\ gis["main"].slot = "possible_cause"
    /\ tw["main"].pc = "send"
    /\ tw["main"].text # NOT_AVAILABLE

\* C9: a get_issue_summary that did not answer from the cache and whose request
\* ended in an exception, in a status other than 200 or in a body that cannot be
\* read returns the pair (NOT_AVAILABLE, NOT_AVAILABLE); no get_issue_summary
\* raises, and create_issues_dataframe is never ended by an exception: it goes on
\* with the issues that remain.
C9_FailureGivesSentinelPair ==
    /\ dfr.pc # "raised"
    /\ \A t \in Threads :
          /\ ~gis[t].raised
          /\ ( /\ gis[t].pc = "ret"
               /\ gis[t].path # "cache"
               /\ \/ gis[t].response = NoResponse
                  \/ gis[t].response.status_code # 200
                  \/ gis[t].response.body = InvalidBody )
             => gis[t].ret = <<NOT_AVAILABLE, NOT_AVAILABLE>>

\* the first issue of a list got the sentinel pair after its retries were exhausted,
\* and the list was finished with the summary of the second
C9_Witness ==
    /\ dfr.pc = "done"
    /\ Len(dfr.result) = 2
    /\ dfr.result[1].o_que_aconteceu = NOT_AVAILABLE
    /\ dfr.result[1].possivel_causa = NOT_AVAILABLE
    /\ dfr.result[2].o_que_aconteceu # NOT_AVAILABLE
    /\ weather = "transport"

\* no call of get_issue_summary is under way
NoEnrichment == \A t \in Threads : gis[t].pc \in {"off", "ret"}

C11_TranslationFailureKeepsText ==
    \A t \in Threads :
        /\ tw[t].pc \in {"off", "send", "ret"}
        /\ (tw[t].pc = "ret" /\ tw[t].outcome \in TranslationFailures) =>
              /\ tw[t].text \notin {EMPTY, NOT_AVAILABLE}
              /\ tw[t].result = tw[t].text

\* the second field of a summary, in English, came back untranslated after a timeout
C11_Witness ==
    /\ tw["main"].pc = "ret"
    /\ tw["main"].outcome = "timeout"
    /\ tw["main"].text = EN
    /\ tw["main"].result = EN
    /\ tw["main"].caller = "create_issues_dataframe"

\* C12 (as claimed): one call of _translate_with_ai sends at most two requests to the
\* translation endpoint.
C12_Claim == \A t \in Threads : tw[t].requests <= 2

\* C13 (as claimed): once the retries of the fetch of the priorities made at
\* construction, or of one of the four queries of get_issues, are exhausted, the run
\* is aborted: it does not go on without the result of that call.
C13_Claim ==
    /\ run.priorities = "exhausted" => run.pc = "aborted"
    /\ run.failed # 0 => run.pc = "aborted"

\* the rows of the sheet of a name in the book saved
SheetRows(name) ==
    LET i == CHOOSE j \in 1..Len(sheet_names) : sheet_names[j] = name
    IN  run.book[i].rows

\* C14 (as claimed): in the report saved, every record of the sheet of high priority
\* has priority high by the priority resolver, and every record of the sheet of low
\* priority has priority low, whatever the upstream returned for each query.
C14_Claim ==
    run.pc = "done" =>
        /\ \A i \in 1..Len(SheetRows("Alta_Prioridade")) :
              _get_issue_priority(SheetRows("Alta_Prioridade")[i].title) = "high"
        /\ \A i \in 1..Len(SheetRows("Baixa_Prioridade")) :
              _get_issue_priority(SheetRows("Baixa_Prioridade")[i].title) = "low"

\* the number a string of digits denotes
RECURSIVE digits_value(_)
digits_value(digits) ==
    IF digits = <<>> THEN 0
    ELSE 10 * digits_value(SubSeq(digits, 1, Len(digits) - 1)) + digits[Len(digits)]

\* the occurrence count of a record
occurrences(r) == IF "int" \in DOMAIN r.count THEN r.count.int ELSE digits_value(r.count.str)

\* C15 (as claimed): each of the four collections of the report holds one record
\* for each issue of its query result and no other, ordered by occurrence count
\* descending, ties broken by affected users descending.
C15_Claim ==
    run.pc = "done" =>
        \A q \in 1..Len(run.sheets) :
            LET rows == run.sheets[q].rows
                issues == run.results[q]
            IN  /\ Len(rows) = Len(issues)
                /\ {rows[i].id : i \in 1..Len(rows)} = {issues[i].id : i \in 1..Len(issues)}
                /\ \A i \in 1..(Len(rows) - 1) :
                      \/ occurrences(rows[i]) > occurrences(rows[i + 1])
                      \/ /\ occurrences(rows[i]) = occurrences(rows[i + 1])
                         /\ rows[i].users_affected >= rows[i + 1].users_affected

\* C16: a report that is saved has the four sheets Erros_Med_Alta, Alta_Prioridade,
\* Baixa_Prioridade and Nao_Erros, in this order, each with the fixed header of 14
\* columns and one row for each issue of its query result: the sheet of a query with
\* an empty result is there, with the header and no row.
C16_AllSheetsPresent ==
    run.pc = "done" =>
        /\ Len(run.book) = 4
        /\ \A i \in 1..Len(run.book) :
              /\ run.book[i].name =
                    <<"Erros_Med_Alta", "Alta_Prioridade", "Baixa_Prioridade", "Nao_Erros">>[i]
              /\ run.book[i].columns =
                    <<"report_date", "title", "count", "users_affected", "environment",
                      "status", "level", "first_seen", "last_seen", "short_id", "culprit",
                      "permalink", "o_que_aconteceu", "possivel_causa">>
              /\ Len(run.book[i].rows) = Len(run.results[i])

\* a report whose first and last queries had empty results and whose others had not
C16_Witness ==
    /\ run.pc = "done"
    /\ run.results[1] = <<>> /\ run.results[4] = <<>>
    /\ run.results[2] # <<>> /\ run.results[3] # <<>>
    /\ run.book[1].rows = <<>> /\ Len(run.book[1].columns) = 14
    /\ Len(run.book[2].rows) = 2

\* the tasks of the batch, and whether each stored the summary it fetched
BatchTasks == 1..Len(bat.future_to_id)
TaskFrame(i) == gis[bat.future_to_id[i].worker]

\* C17 (as claimed): when the tasks of a batch have enriched different issues and
\* all have succeeded, the cache file holds the entries of all of them, whatever
\* the interleaving of their stores and flushes.
C17_Claim ==
    ( /\ bat.pc = "done"
      /\ \A i \in BatchTasks : TaskFrame(i).path = "ok" )
    => /\ file.state = "ok"
       /\ \A i \in BatchTasks : bat.batch_ids[i] \in DOMAIN file.data

\* C18 (as claimed): no increment of the summary counter is lost: when the k tasks
\* of a batch have each had their one summarize request answered, within one
\* window, the counter is k.
C18_Claim ==
    ( /\ bat.pc = "done"
      /\ now - last_summary_request < summary_rate_window )
    => summary_requests_count =
          Cardinality({i \in BatchTasks : TaskFrame(i).response # NoResponse})

\* C19 (as claimed): the summary that _process_summary_batch reports for an issue
\* of its batch is the pair get_issue_summary computed for that issue.
C19_Claim ==
    bat.pc = "done" =>
        \A i \in BatchTasks : bat.results[i] = TaskFrame(i).ret

\* the enrichments under way, and the pauses made once the first b batches are over
InFlight == {t \in Threads : gis[t].pc # "off"}
PausesAfter(b) == [j \in 1..b |-> [after |-> j * batch_size, seconds |-> batch_pause]]

\* C20: create_issues_dataframe enriches the issues batch by batch: the enrichment
\* of an issue starts only when every issue before it has its record, with the
\* pause after each batch before it made, never more than batch_size (here one)
\* enrichment is under way, and the run of n > 0 issues ends having paused
\* batch_pause seconds after each batch but the last: ceil(n / batch_size) - 1
\* pauses.
C20_BatchesAndPauses ==
    /\ Cardinality(InFlight) <= 1
    /\ dfr.pc = "summarizing" =>
          /\ Len(dfr.data) = dfr.k - 1
          /\ \A t \in InFlight : gis[t].issue_id = dfr.issues[dfr.k].id
          /\ dfr.pauses = PausesAfter((dfr.k - 1) \div batch_size)
    /\ (dfr.pc = "done" /\ Len(dfr.issues) > 0) =>
          /\ Len(dfr.data) = Len(dfr.issues)
          /\ dfr.pauses = PausesAfter((Len(dfr.issues) + batch_size - 1) \div batch_size - 1)

\* a list of two whole batches has been enriched, with one pause
C20_Witness ==
    /\ dfr.pc = "done"
    /\ Len(dfr.issues) = 2 * batch_size
    /\ Len(dfr.pauses) = 1

\* C21 (as claimed): every request a call of _translate_with_ai has sent was
\* preceded, in that call, by an acquisition that counted it: while the window of
\* the translation limiter is open the count is at least the number of requests
\* the calls under way have sent.
C21_Claim ==
    now - _last_translation < translation_window =>
        \A t \in Threads : tw[t].requests <= _translation_count

\* C22 (as claimed): in a whole run the bulk query of the priorities is executed
\* at most twice, whatever titles are looked up.
C22_Claim == run.bulk_queries <= 2

\* C23 (as claimed): a summary field that _is_portuguese judges to be in
\* Portuguese already is never the text of a _translate_with_ai call made during
\* an enrichment, by get_issue_summary or by create_issues_dataframe.
C23_Claim ==
    \A t \in Threads :
        ( /\ tw[t].pc # "off"
          /\ tw[t].caller \in {"get_issue_summary", "create_issues_dataframe"} )
        => ~_is_portuguese(tw[t].text)

\* C24: a get_issue_summary that finds for its issue an entry of age CACHE_EXPIRY
\* or more does not return it: its cache check leaves the cache and the file alone
\* and goes on to the rate-limit check (and from there to the request); and the
\* store that follows a successful fetch puts in the place of the entry one whose
\* timestamp is the time of the store.
C24_ExpiredEntryIsRefetched ==
    [][\A t \in Threads :
         LET id == gis[t].issue_id
         IN  /\ ( /\ gis[t].pc = "check"
                  /\ gis'[t].pc \notin {"check", "off"}
                  /\ id \in DOMAIN _summary_cache
                  /\ "timestamp" \in DOMAIN _summary_cache[id]
                  /\ now - _summary_cache[id].timestamp >= CACHE_EXPIRY )
                => /\ gis'[t].pc = "limit"
                   /\ gis'[t].ret = <<>>
                   /\ UNCHANGED <<_summary_cache, file>>
             /\ ( gis[t].pc = "store" /\ gis'[t].pc = "save" )
                => /\ _summary_cache'[id] =
                         Entry(gis[t].whats_wrong, gis[t].possible_cause, now')
                   /\ gis[t].response.status_code = 200
    ]_vars

\* the entry the file holds for the issue was valid when the client loaded it; the
\* call, made after it had expired, has fetched the summary and stored it afresh
C24_Witness ==
    \E t \in Threads :
        LET id == gis[t].issue_id
        IN  /\ gis[t].pc = "save"
            /\ restarts = 0
            /\ file.state = "ok"
            /\ id \in DOMAIN file.data
            /\ "timestamp" \in DOMAIN file.data[id]
            /\ boot.at - file.data[id].timestamp < CACHE_EXPIRY
            /\ now - file.data[id].timestamp >= CACHE_EXPIRY
            /\ _summary_cache[id].timestamp = now

\* C25: when a get_issue_summary that did not answer from the cache has returned
\* after a request that ended in an exception, in a status other than 200 or in a
\* body that cannot be read, it has returned the sentinel pair, the cache in memory
\* and the cache file are as the call found them, and the cache holds no valid
\* entry for the issue, so that the next call for it goes to the upstream again.
C25_FailureLeavesCache ==
    \A t \in Threads :
        LET id == gis[t].issue_id
        IN  ( /\ gis[t].pc = "ret"
              /\ gis[t].path # "cache"
              /\ \/ gis[t].response = NoResponse
                 \/ gis[t].response.status_code # 200
                 \/ gis[t].response.body = InvalidBody )
            => /\ gis[t].ret = <<NOT_AVAILABLE, NOT_AVAILABLE>>
               /\ _summary_cache = gis[t].at_call.cache
               /\ file = gis[t].at_call.file
               /\ id \in DOMAIN _summary_cache =>
                     now - _summary_cache[id].timestamp >= CACHE_EXPIRY

\* a call has returned after a 204 while the cache holds an entry, expired, for
\* another issue or for its own
C25_Witness ==
    \E t \in Threads :
        /\ gis[t].pc = "ret"
        /\ gis[t].path = "fail"
        /\ gis[t].response.status_code = 204
        /\ _summary_cache # NoEntries
        /\ file.state = "ok"

====
